---------------------------- MODULE Spec2Model ----------------------------
(***************************************************************************)
(* SmartShopSaver: intent routing (agents/ai_intent_analyzer.py, app.py)   *)
(* and the per-user conversation history.                                  *)
(*                                                                         *)
(* Text is a sequence of characters, so that Python's `word in message`,   *)
(* str.lower and str.replace are computed on the characters and not        *)
(* assumed.  An ASCII character is written as itself; any other character  *)
(* is written as its reading and its code point ("mai_8CB7" is U+8CB7).    *)
(* Confidences and scores are kept in tenths (0.3 is 3); every sum the     *)
(* scorer forms (0.5+0.3+0.2, 0.7+0.3, 0.8+0.2, 0.5+0.2, 0.3+0.2) is exact *)
(* in IEEE doubles, so comparing tenths agrees with comparing the floats.  *)
(***************************************************************************)
EXTENDS Integers, Sequences, FiniteSets, TLC

(***************************************************************************)
(* Bounds of the model                                                     *)
(***************************************************************************)
\* a message is the concatenation of at most MaxTokens input tokens
MaxTokens == 2

\* a product name has at most MaxProductLen characters
MaxProductLen == 3

\* a search response has at most MaxProducts products
MaxProducts == 12

\* a site answers a search with at most MaxResults products
MaxResults == 7

(***************************************************************************)
(* Strings                                                                 *)
(***************************************************************************)
UpperLower ==
    [c \in {"A","B","C","D","E","F","G","H","I","J","K","L","M",
            "N","O","P","Q","R","S","T","U","V","W","X","Y","Z"} |->
       CASE c = "A" -> "a" [] c = "B" -> "b" [] c = "C" -> "c" [] c = "D" -> "d"
         [] c = "E" -> "e" [] c = "F" -> "f" [] c = "G" -> "g" [] c = "H" -> "h"
         [] c = "I" -> "i" [] c = "J" -> "j" [] c = "K" -> "k" [] c = "L" -> "l"
         [] c = "M" -> "m" [] c = "N" -> "n" [] c = "O" -> "o" [] c = "P" -> "p"
         [] c = "Q" -> "q" [] c = "R" -> "r" [] c = "S" -> "s" [] c = "T" -> "t"
         [] c = "U" -> "u" [] c = "V" -> "v" [] c = "W" -> "w" [] c = "X" -> "x"
         [] c = "Y" -> "y" [] c = "Z" -> "z"]

\* str.lower()
Lower(s) ==
    [i \in 1..Len(s) |-> IF s[i] \in DOMAIN UpperLower THEN UpperLower[s[i]] ELSE s[i]]

\* s[i:i+len(w)] == w
MatchAt(s, w, i) ==
    /\ i + Len(w) - 1 <= Len(s)
    /\ \A k \in 1..Len(w) : s[i + k - 1] = w[k]

\* `w in s` for strings
Contains(s, w) ==
    \E i \in 1..(Len(s) - Len(w) + 1) : MatchAt(s, w, i)

\* any(word in s for word in words)
AnyWordIn(words, s) ==
    \E j \in DOMAIN words : Contains(s, words[j])

RECURSIVE ReplaceFrom(_, _, _, _)
ReplaceFrom(s, old, new, i) ==
    IF i > Len(s) THEN << >>
    ELSE IF MatchAt(s, old, i) THEN new \o ReplaceFrom(s, old, new, i + Len(old))
    ELSE << s[i] >> \o ReplaceFrom(s, old, new, i + 1)

\* s.replace(old, new): leftmost non-overlapping occurrences
Replace(s, old, new) == ReplaceFrom(s, old, new, 1)

(***************************************************************************)
(* app.py: enhance_message_understanding                                   *)
(***************************************************************************)
replacements == <<
    << <<"you_6709","sha_5565">>, <<"you_6709","shen_4EC0","me_9EBC">> >>,
    << <<"za_548B","yang_6A23">>, <<"zen_600E","me_9EBC","yang_6A23">> >>,
    << <<"sha_5565","shi_6642","hou_5019">>, <<"shen_4EC0","me_9EBC","shi_6642","hou_5019">> >>,
    << <<"duo_591A","shao_5C11","$">>, <<"duo_591A","shao_5C11","qian_9322">> >>,
    << <<"duo_591A","shao_5C11","yen_FFE5">>, <<"duo_591A","shao_5C11","qian_9322">> >>,
    << <<"xiang_60F3","mai_8CB7","ge_500B">>, <<"wo_6211","xiang_60F3","mai_8CB7">> >>,
    << <<"xiang_60F3","yao_8981","ge_500B">>, <<"wo_6211","xiang_60F3","yao_8981">> >>,
    << <<"bang_5E6B","wo_6211","kan_770B","kan_770B">>, <<"qing_8ACB","bang_5E6B","wo_6211","cha_67E5","xun_8A62">> >>,
    << <<"you_6709","mei_6C92","you_6709">>, <<"shi_662F","fou_5426","you_6709">> >>,
    << <<"hao_597D","bu_4E0D","hao_597D","yong_7528">>, <<"ping_8A55","jia_50F9","ru_5982","he_4F55">> >> >>

RECURSIVE ApplyReplacements(_, _)
ApplyReplacements(msg, k) ==
    IF k > Len(replacements) THEN msg
    ELSE ApplyReplacements(Replace(msg, replacements[k][1], replacements[k][2]), k + 1)

enhance_message_understanding(msg) == ApplyReplacements(msg, 1)

(***************************************************************************)
(* agents/ai_intent_analyzer.py: the keyword groups of                     *)
(* _advanced_fallback_analysis, in source order                            *)
(***************************************************************************)
RecommendationWords == << <<"mai_8CB7">>, <<"tui_63A8","jian_85A6">>, <<"jian_5EFA","yi_8B70">>, <<"xiang_60F3","yao_8981">>, <<"xu_9700","yao_8981">>, <<"xuan_9078">>, <<"na_54EA","ge_500B">>, <<"shen_4EC0","me_9EBC">>, <<"hao_597D">> >>
RecommendationProducts == << <<"hua_6ED1","shu_9F20">>, <<"jian_9375","pan_76E4">>, <<"er_8033","ji_6A5F">>, <<"shou_624B","ji_6A5F">>, <<"bi_7B46","dian_96FB">>, <<"ping_5E73","ban_677F">> >>
QuestionMarks == << <<"?">>, <<"qmark_FF1F">>, <<"ma_55CE">> >>
PriceWords == << <<"jia_50F9","ge_683C">>, <<"duo_591A","shao_5C11","qian_9322">>, <<"zhui_8FFD","zong_8E64">>, <<"jiang_964D","jia_50F9">>, <<"pian_4FBF","yi_5B9C">>, <<"te_7279","jia_50F9">> >>
PriceNotifyWords == << <<"tong_901A","zhi_77E5">>, <<"ti_63D0","xing_9192">>, <<"mu_76EE","biao_6A19","jia_50F9">> >>
ReviewWords == << <<"ping_8A55","jia_50F9">>, <<"ping_8A55","lun_8AD6">>, <<"hao_597D","bu_4E0D","hao_597D">>, <<"hao_597D","yong_7528">>, <<"zhi_503C","de_5F97">>, <<"zen_600E","me_9EBC","yang_6A23">> >>
ReviewDetailWords == << <<"you_512A","dian_9EDE">>, <<"que_7F3A","dian_9EDE">>, <<"xin_5FC3","de_5F97">>, <<"ti_9AD4","yan_9A57">> >>
FinanceWords == << <<"ji_8A18","zhang_5E33">>, <<"ji_8A18","lu_9304">>, <<"hua_82B1","fei_8CBB">>, <<"hua_82B1","le_4E86">>, <<"xiao_6D88","fei_8CBB">>, <<"zhi_652F","chu_51FA">> >>
FinancePeriodWords == << <<"yu_9810","suan_7B97">>, <<"tong_7D71","ji_8A08">>, <<"zhe_9019","ge_500B","yue_6708">>, <<"ben_672C","yue_6708">>, <<"jin_4ECA","tian_5929">> >>
GmailWords == << <<"g","m","a","i","l">>, <<"m","a","i","l">>, <<"you_90F5","jian_4EF6">>, <<"xin_4FE1","jian_4EF6">>, <<"e","m","a","i","l">> >>
GmailConnectWords == << <<"lian_9023","jie_63A5">>, <<"lian_9023","jie_7D50">>, <<"shou_6388","quan_6B0A">>, <<"tong_540C","bu_6B65">> >>

\* insertion order of the scores dict
AgentOrder == << "SmartRecommendation", "PriceTracker", "ProductReview", "Finance", "Gmail" >>

Agents == { AgentOrder[i] : i \in DOMAIN AgentOrder }

\* the weights, in tenths
Add(b, w) == IF b THEN w ELSE 0

\* the scores dict of _advanced_fallback_analysis
FallbackScores(message) ==
    LET message_lower == Lower(message)
    IN  [SmartRecommendation |->
             Add(AnyWordIn(RecommendationWords, message_lower), 5)
             + Add(AnyWordIn(RecommendationProducts, message_lower), 3)
             + Add(AnyWordIn(QuestionMarks, message), 2),
         PriceTracker |->
             Add(AnyWordIn(PriceWords, message_lower), 7)
             + Add(AnyWordIn(PriceNotifyWords, message_lower), 3),
         ProductReview |->
             Add(AnyWordIn(ReviewWords, message_lower), 7)
             + Add(AnyWordIn(ReviewDetailWords, message_lower), 3),
         Finance |->
             Add(AnyWordIn(FinanceWords, message_lower), 7)
             + Add(AnyWordIn(FinancePeriodWords, message_lower), 3),
         Gmail |->
             Add(AnyWordIn(GmailWords, message_lower), 8)
             + Add(AnyWordIn(GmailConnectWords, message_lower), 2)]

Min(a, b) == IF a <= b THEN a ELSE b

RECURSIVE MaxValue(_, _)
\* max(scores.values())
MaxValue(scores, i) ==
    IF i = Len(AgentOrder) THEN scores[AgentOrder[i]]
    ELSE LET rest == MaxValue(scores, i + 1)
         IN  IF scores[AgentOrder[i]] >= rest THEN scores[AgentOrder[i]] ELSE rest

RECURSIVE MaxKeyFrom(_, _, _)
\* max(scores, key=scores.get): scan in insertion order, keep the current
\* best unless a later key is strictly greater
MaxKeyFrom(scores, i, best) ==
    IF i > Len(AgentOrder) THEN best
    ELSE MaxKeyFrom(scores, i + 1,
                    IF scores[AgentOrder[i]] > scores[best] THEN AgentOrder[i] ELSE best)

RECURSIVE MaxKeyLastFrom(_, _, _)
MaxKeyLastFrom(scores, i, best) ==
    IF i > Len(AgentOrder) THEN best
    ELSE MaxKeyLastFrom(scores, i + 1,
                        IF scores[AgentOrder[i]] >= scores[best] THEN AgentOrder[i] ELSE best)

\* a max that lets the last of the equal keys win
MaxKey_LastWins(scores) == MaxKeyLastFrom(scores, 2, AgentOrder[1])

MaxKey(scores) == MaxKeyFrom(scores, 2, AgentOrder[1])

\* the default of the no-match branch
DefaultAgent == "SmartRecommendation"
DefaultConfidence == 3
ConfidenceCap == 9

\* the analysis without its no-match branch
_advanced_fallback_analysis_NoDefault(message, context) ==
    LET scores == FallbackScores(message)
        best_agent == MaxKey(scores)
    IN  [agent |-> best_agent,
         confidence |-> Min(scores[best_agent], ConfidenceCap),
         scores |-> scores]

\* _advanced_fallback_analysis(message, context): (best_agent, confidence);
\* the context argument is not read
_advanced_fallback_analysis(message, context) ==
    LET scores == FallbackScores(message)
    IN  IF MaxValue(scores, 1) = 0
        THEN [agent |-> DefaultAgent, confidence |-> DefaultConfidence, scores |-> scores]
        ELSE LET best_agent == MaxKey(scores)
             IN  [agent |-> best_agent,
                  confidence |-> Min(scores[best_agent], ConfidenceCap),
                  scores |-> scores]

(***************************************************************************)
(* app.py: rule_based_routing                                              *)
(***************************************************************************)
RouteGmailWords == << <<"g","m","a","i","l">>, <<"you_90F5","jian_4EF6">>, <<"lian_9023","jie_63A5">>, <<"shou_6388","quan_6B0A">>, <<"sao_6383","miao_63CF">> >>
RouteFinanceWords == << <<"ji_8A18","zhang_5E33">>, <<"zhi_652F","chu_51FA">>, <<"hua_82B1","fei_8CBB">>, <<"yu_9810","suan_7B97">>, <<"ben_672C","yue_6708">> >>
RoutePriceWords == << <<"jia_50F9","ge_683C">>, <<"zhui_8FFD","zong_8E64">>, <<"bi_6BD4","jia_50F9">>, <<"cha_67E5","xun_8A62">>, <<"duo_591A","shao_5C11","qian_9322">>, <<"qing_6E05","dan_55AE">> >>
RouteReviewWords == << <<"ping_8A55","jia_50F9">>, <<"ping_8A55","lun_8AD6">>, <<"hao_597D","bu_4E0D","hao_597D">>, <<"zhi_503C","de_5F97","mai_8CB7">> >>
RouteRecommendWords == << <<"tui_63A8","jian_85A6">>, <<"jian_5EFA","yi_8B70">>, <<"xuan_9078","ze_64C7">> >>

\* the reply of get_help_message(): no agent is invoked
Help == "Help"

\* the agent rule_based_routing invokes, or Help
rule_based_routing(mapping, message) ==
    LET msg_lower == Lower(message)
    IN  IF AnyWordIn(RouteGmailWords, msg_lower) /\ "Gmail" \in mapping THEN "Gmail"
        ELSE IF AnyWordIn(RouteFinanceWords, msg_lower) /\ "Finance" \in mapping THEN "Finance"
        ELSE IF AnyWordIn(RoutePriceWords, msg_lower) /\ "PriceTracker" \in mapping THEN "PriceTracker"
        ELSE IF AnyWordIn(RouteReviewWords, msg_lower) /\ "ProductReview" \in mapping THEN "ProductReview"
        ELSE IF AnyWordIn(RouteRecommendWords, msg_lower) /\ "SmartRecommendation" \in mapping
             THEN "SmartRecommendation"
        ELSE Help

(***************************************************************************)
(* State                                                                   *)
(***************************************************************************)
VARIABLES
    AGENT_MAPPING,          \* app.py: labels of the agents that loaded
    api_key,                \* OPENAI_API_KEY / AIIntentAnalyzer.api_key is set
    conversation_history,   \* AIIntentAnalyzer.conversation_history
    user_id,                \* the user of the call in progress
    message,                \* the text of the call in progress
    pc,                     \* position of the call in progress
    fallback,               \* last result of _advanced_fallback_analysis
    routed,                 \* last result of rule_based_routing
    outcome,                \* what the classifier call of this call did
    decision,               \* what analyze_intent returned
    served,                 \* what process_user_message answered with
    handler_raises,         \* _process_message_internal raises for this message
    invoked,                \* the process_message calls made for this message
    reply,                  \* how process_user_message ended
    calls,                  \* number of calls made so far
    recorded,               \* per user, every turn ever passed to the history
    heap,                   \* the list objects, by identity
    entry,                  \* conversation_history as the threads see it:
                            \* user -> identity of the user's list
    tuser,                  \* thread -> user of its message
    tpc,                    \* thread -> line it is at
    tref,                   \* thread -> list it has loaded
    tturn,                  \* thread -> turn it records
    tcontext,               \* thread -> number of turns of the context it got
    decided,                \* the threads in the order of their routing decisions
    db_connected,           \* PriceTrackerAgent.db_connected
    tracking,               \* the documents of db.product_name_tracking
    searches,               \* the keywords _search_pchome was called with
    product_name,           \* what _extract_product_name returned
    target_price,           \* what _extract_target_price returned
    track_reply,            \* what _handle_track_request returned
    products,               \* the products of a search response
    filtered,               \* what _filter_products returned
    pchome_result,          \* what _search_pchome returned
    source_outcome,         \* platform -> what a request to its site meets
    limit,                  \* the limit search_all_platforms is called with
    results,                \* what search_all_platforms returned
    future,                 \* platform -> state of the future submitted for it
    response                \* how format_multi_platform_response ended

vars == << AGENT_MAPPING, api_key, conversation_history, user_id, message, pc,
           fallback, routed, outcome, decision, served, handler_raises,
           invoked, reply, calls, recorded, heap, entry, tuser, tpc, tref, tturn,
           tcontext, decided,
           db_connected, tracking, searches, product_name, target_price,
           track_reply, products, filtered, pchome_result, source_outcome, limit, results, future,
           response >>

\* the variables of one part of the model
scorerVars == << fallback, routed >>
routerVars == << outcome, decision, served, handler_raises, invoked, reply, calls >>
storeVars == << recorded >>
threadVars == << heap, entry, tuser, tpc, tref, tturn, tcontext, decided >>
trackerVars == << db_connected, tracking, searches, product_name, target_price, track_reply >>
filterVars == << products, filtered, pchome_result >>
searchVars == << source_outcome, limit, results, future, response >>
shopVars == << trackerVars, filterVars, searchVars >>

None == "None"

\* no result yet
NoResult == [agent |-> None]

\* an Optional value: None, or a value
Absent == << >>
Present(v) == << v >>

Users == {"U1", "U2"}

\* the texts messages are built from: keywords of both tables, keywords of
\* one table only, texts that enhance_message_understanding rewrites, an
\* upper-case spelling and a text that is no keyword
InputTokens == {
    <<"tui_63A8","jian_85A6">>, <<"hao_597D">>, <<"shou_624B","ji_6A5F">>, <<"ma_55CE">>,
    <<"jia_50F9","ge_683C">>, <<"duo_591A","shao_5C11","qian_9322">>, <<"cha_67E5","xun_8A62">>, <<"mu_76EE","biao_6A19","jia_50F9">>,
    <<"ping_8A55","jia_50F9">>, <<"hao_597D","yong_7528">>,
    <<"hua_82B1","le_4E86">>, <<"ji_8A18","zhang_5E33">>, <<"zhe_9019","ge_500B","yue_6708">>, <<"ben_672C","yue_6708">>,
    <<"G","m","a","i","l">>, <<"lian_9023","jie_63A5">>, <<"sao_6383","miao_63CF">>,
    <<"duo_591A","shao_5C11","$">>, <<"hao_597D","bu_4E0D","hao_597D","yong_7528">>, <<"bang_5E6B","wo_6211","kan_770B","kan_770B">>,
    <<"i","p","h","o","n","e">> }

RECURSIVE TextsOf(_)
\* concatenations of at most n input tokens
TextsOf(n) ==
    IF n = 0 THEN { << >> }
    ELSE LET shorter == TextsOf(n - 1)
         IN  shorter \cup { s \o t : s \in shorter, t \in InputTokens }

Messages == TextsOf(MaxTokens) \ { << >> }

\* a turn of the history; the timestamp is not modelled
Turn(msg, agent) == [message |-> msg, agent |-> agent]

EmptyHistory == << >>

\* _get_user_context
_get_user_context(history, user) ==
    IF user # None /\ user \in DOMAIN history THEN history[user] ELSE << >>

(***************************************************************************)
(* agents/ai_intent_analyzer.py: the conversation history                  *)
(***************************************************************************)
\* entries kept per user
HistoryCap == 10

\* lst[:n] in the place of lst[-n:]
LastN_Head(lst, n) ==
    IF Len(lst) <= n THEN lst ELSE SubSeq(lst, 1, n)

\* lst[-n:]
LastN(lst, n) ==
    IF Len(lst) <= n THEN lst ELSE SubSeq(lst, Len(lst) - n + 1, Len(lst))

\* _update_conversation_history, run without interruption
_update_conversation_history(history, user, msg, agent) ==
    IF user = None THEN history
    ELSE LET created == IF user \in DOMAIN history THEN history
                        ELSE history @@ (user :> << >>)
             appended == Append(created[user], Turn(msg, agent))
         IN  [created EXCEPT ![user] =
                 IF Len(appended) > HistoryCap THEN LastN(appended, HistoryCap)
                 ELSE appended]

(***************************************************************************)
(* agents/ai_intent_analyzer.py: the external classifier                   *)
(***************************************************************************)
\* a JSON number (in tenths), a JSON string, or no such key
Number(n) == [type |-> "number", value |-> n]
NotANumber == [type |-> "string", value |-> 0]
Missing == "Missing"
MissingValue == [type |-> "missing", value |-> 0]

\* what json.loads(content) can be: null, an empty object, a non-empty
\* value that is no object, or an object with or without its keys
Json(type, agent, confidence) == [type |-> type, agent |-> agent, confidence |-> confidence]
JsonNull == Json("null", Missing, MissingValue)

\* labels a classifier answer can name: registered agents, the agent the
\* prompt lists but app.py does not register, and a label nobody knows
ClassifierLabels == {"Finance", "SmartRecommendation", "UniversalRecommendation", "Weather"}

ClassifierConfidences == { MissingValue, Number(3), Number(9), Number(15), NotANumber }

\* every label with a confidence of 0.9 and of 0.3, every confidence with
\* the label Finance and without label
JsonValues ==
    { JsonNull, Json("empty", Missing, MissingValue), Json("list", Missing, MissingValue) }
    \cup { Json("dict", a, c) : a \in ClassifierLabels, c \in {Number(9), Number(3)} }
    \cup { Json("dict", a, c) : a \in {"Finance", Missing}, c \in ClassifierConfidences }

\* what requests.post and the parsing of its body can do
FailureKinds == {"timeout", "connection_error", "http_error", "bad_content"}

Outcome(kind, json) == [kind |-> kind, json |-> json]
NoOutcome == Outcome("not_called", JsonNull)

ClassifierOutcomes ==
    { Outcome(k, JsonNull) : k \in FailureKinds } \cup { Outcome("ok", j) : j \in JsonValues }

\* the classifier is called only with a key
OutcomesWith(key) == IF key THEN ClassifierOutcomes ELSE {NoOutcome}

\* the end of a block of code: a value, or an exception
Return(v) == [raised |-> FALSE, value |-> v]
Raise == [raised |-> TRUE, value |-> JsonNull]

\* _call_openai: the try block, then `except Exception: return None`
_call_openai(o) ==
    LET body == CASE o.kind \in {"timeout", "connection_error"} -> Raise
                  [] o.kind = "http_error" -> Return(JsonNull)
                  [] o.kind = "bad_content" -> Raise
                  [] OTHER -> Return(o.json)
    IN  IF body.raised THEN Return(JsonNull) ELSE body

\* bool(result)
Truthy(json) == json.type \notin {"null", "empty"}

\* result.get("agent", default)
GetAgent(json, default) == IF json.agent = Missing THEN default ELSE json.agent

\* result.get("confidence", default)
GetConfidence(json, default) ==
    IF json.confidence = MissingValue THEN default ELSE json.confidence

Decision(agent, confidence, source) ==
    [raised |-> FALSE, agent |-> agent, confidence |-> confidence, source |-> source]

NoDecision == Decision(None, MissingValue, None)

\* an exception that leaves analyze_intent
RaisedDecision == [NoDecision EXCEPT !.raised = TRUE]

\* what a call leaves: the decision it returns and the history
Result(d, history) == [decision |-> d, history |-> history]

\* the rule fallback as analyze_intent returns it
FallbackDecision(msg, context) ==
    LET r == _advanced_fallback_analysis(msg, context)
    IN  Decision(r.agent, Number(r.confidence), "RuleFallback")

\* lines 154-164, the body of `if result:` for an object
ClassifierResult(history, msg, user, json) ==
    Result(Decision(GetAgent(json, "SmartRecommendation"),
                    GetConfidence(json, Number(5)), "ExternalClassifier"),
           _update_conversation_history(history, user, msg,
                                        GetAgent(json, "SmartRecommendation")))

\* lines 147-164, the try block for what _call_openai did: a result, an
\* exception (result.get on a value that is no object), or nothing
TryBlock(history, msg, user, called) ==
    IF called.raised THEN Result(RaisedDecision, history)
    ELSE IF ~Truthy(called.value) THEN Result(NoDecision, history)
    ELSE IF called.value.type # "dict" THEN Result(RaisedDecision, history)
    ELSE ClassifierResult(history, msg, user, called.value)

\* an AfterTry that answers a failed call with the default agent
AfterTry_DefaultOnFailure(tried, history, msg, context) ==
    IF tried.decision.raised \/ tried.decision = NoDecision
    THEN Result(Decision(DefaultAgent, Number(DefaultConfidence), "RuleFallback"), history)
    ELSE tried

\* lines 166-170: `except Exception`, or `if result:` not taken, end in the
\* rule fallback
AfterTry(tried, history, msg, context) ==
    IF tried.decision.raised \/ tried.decision = NoDecision
    THEN Result(FallbackDecision(msg, context), history)
    ELSE tried

\* line 141
ContextOf(history, user) ==
    IF user # None THEN _get_user_context(history, user) ELSE << >>

\* analyze_intent(message, user_id): the decision and the history it leaves
analyze_intent(history, msg, user, key, o) ==
    IF ~key THEN Result(FallbackDecision(msg, ContextOf(history, user)), history)
    ELSE AfterTry(TryBlock(history, msg, user, _call_openai(o)), history, msg,
                  ContextOf(history, user))

(***************************************************************************)
(* app.py: process_user_message                                            *)
(***************************************************************************)
\* below this the reply carries the clarifying remark
RemarkBelow == 5

Served(agent, remark) == [agent |-> agent, remark |-> remark]
NotServed == Served(None, FALSE)

\* lines 152-167 for the result r of analyze_intent: the agent whose
\* process_message makes the reply
Dispatch(mapping, msg, r) ==
    IF r.decision.confidence.type = "number" /\ r.decision.agent \in mapping
    THEN Served(r.decision.agent, r.decision.confidence.value < RemarkBelow)
    ELSE \* format error of the log line, or no such agent
         Served(rule_based_routing(mapping, msg), FALSE)

\* process_user_message(user_id, message) once the message is enhanced: the
\* result of analyze_intent if it is called, else nothing decided
Analyzed(history, msg, user, key, o) ==
    IF key THEN analyze_intent(history, msg, user, key, o) ELSE Result(NoDecision, history)

(***************************************************************************)
(* app.py: the replies of process_user_message                             *)
(***************************************************************************)
\* a reply text: what it is, whose it is, and whether the remark is appended
Reply(kind, agent, remark) == [kind |-> kind, agent |-> agent, remark |-> remark]
NoReply == Reply(None, None, FALSE)

\* a call agent.process_message(user_id, message) and the branch that made it
Invocation(branch, agent) == [branch |-> branch, agent |-> agent]

\* how a block ends: with a reply, or with an exception
Replied(text) == [raised |-> FALSE, text |-> text]
Raised == [raised |-> TRUE, text |-> NoReply]
NotReplied == Replied(NoReply)

\* a process_message without the try/except
process_message_NoCatch(agent, raises) ==
    IF raises THEN Raised ELSE Replied(Reply("handled", agent, FALSE))

\* BaseAgent.process_message: the result of _process_message_internal, or
\* the unavailable message when it raises
process_message(agent, raises) ==
    IF raises THEN Replied(Reply("unavailable", agent, FALSE))
    ELSE Replied(Reply("handled", agent, FALSE))

\* the state of process_user_message after a block: whether it returned,
\* whether the block raised, the reply and the calls made so far
Block(returned, raised, text, calls_made) ==
    [returned |-> returned, raised |-> raised, text |-> text, invoked |-> calls_made]

\* lines 159-162 for what agent.process_message did
AfterClassifierCall(agent, confidence, p) ==
    IF p.raised THEN Block(FALSE, TRUE, NoReply, << Invocation("classifier", agent) >>)
    ELSE Block(TRUE, FALSE, Reply(p.text.kind, agent, confidence.value < RemarkBelow),
               << Invocation("classifier", agent) >>)

\* a classifier branch that goes on to the rules after the handler answered
ClassifierBranch_NoReturn(mapping, d, raises) ==
    IF d.confidence.type # "number" THEN Block(FALSE, TRUE, NoReply, << >>)
    ELSE IF d.agent \notin mapping THEN Block(FALSE, FALSE, NoReply, << >>)
    ELSE Block(FALSE, FALSE, NoReply, << Invocation("classifier", d.agent) >>)

\* lines 150-164, the inner try for the decision d of analyze_intent
ClassifierBranch(mapping, d, raises) ==
    IF d.confidence.type # "number" THEN Block(FALSE, TRUE, NoReply, << >>)   \* line 152
    ELSE IF d.agent \notin mapping THEN Block(FALSE, FALSE, NoReply, << >>)   \* line 154
    ELSE AfterClassifierCall(d.agent, d.confidence, process_message(d.agent, raises))

\* line 167 for the handler `agent` rule_based_routing chose
RuleCall(agent, calls_made, p) ==
    Block(~p.raised, p.raised, p.text, Append(calls_made, Invocation("rules", agent)))

\* line 167: rule_based_routing after the block c
RuleBranch(mapping, msg, raises, c, agent) ==
    IF c.returned THEN c
    ELSE IF agent = Help THEN Block(TRUE, FALSE, Reply("help", None, FALSE), c.invoked)
    ELSE RuleCall(agent, c.invoked, process_message(agent, raises))

\* lines 169-171: the outer except
OuterExcept(b) ==
    IF b.raised THEN Block(TRUE, FALSE, Reply("apology", None, FALSE), b.invoked) ELSE b

\* process_user_message(user_id, message) once the message is enhanced and
\* analyze_intent, if called, gave the decision d
process_user_message(mapping, msg, key, d, raises) ==
    OuterExcept(RuleBranch(mapping, msg, raises,
                           IF key THEN ClassifierBranch(mapping, d, raises)
                           ELSE Block(FALSE, FALSE, NoReply, << >>),
                           rule_based_routing(mapping, msg)))

(***************************************************************************)
(* Calls of the router, one after the other (Spec)                         *)
(***************************************************************************)
\* calls made in one behaviour
MaxCalls == 1

ScorerIdle ==
    /\ fallback = NoResult
    /\ routed = None

StoreIdle == recorded = << >>

ThreadsIdle ==
    /\ heap = << >>
    /\ entry = << >>
    /\ tuser = << >>
    /\ tpc = << >>
    /\ tref = << >>
    /\ tturn = << >>
    /\ tcontext = << >>
    /\ decided = << >>

TrackerIdle ==
    /\ db_connected = FALSE
    /\ tracking = {}
    /\ searches = << >>
    /\ product_name = Absent
    /\ target_price = Absent
    /\ track_reply = None

FilterIdle ==
    /\ products = << >>
    /\ filtered = << >>
    /\ pchome_result = << >>

SearchIdle ==
    /\ source_outcome = << >>
    /\ limit = 0
    /\ results = << >>
    /\ response = [kind |-> None, listed |-> << >>, counted |-> FALSE]
    /\ future = << >>

RouterIdle ==
    /\ outcome = NoOutcome
    /\ decision = NoDecision
    /\ served = NotServed
    /\ handler_raises = FALSE
    /\ invoked = << >>
    /\ reply = NotReplied
    /\ calls = 0

\* texts of the calls: a finance keyword of both tables, a question mark
\* (scored by the analyzer only), a text app.py rewrites and a text without
\* keyword
RouterMessages == { <<"ji_8A18","zhang_5E33">>, <<"ma_55CE">>, <<"i","p","h","o","n","e">> }

FullHistory ==
    [u \in {"U1"} |-> [i \in 1..HistoryCap |-> Turn(<<"ji_8A18","zhang_5E33">>, "Finance")]]

Init ==
    /\ AGENT_MAPPING = Agents
    /\ api_key \in BOOLEAN
    /\ conversation_history \in {EmptyHistory, FullHistory}
    /\ user_id = None
    /\ message = << >>
    /\ pc = "start"
    /\ fallback = NoResult
    /\ routed = None
    /\ RouterIdle
    /\ TrackerIdle
    /\ FilterIdle
    /\ SearchIdle
    /\ StoreIdle
    /\ ThreadsIdle

\* a caller runs analyze_intent(message, user_id)
AnalyzeIntent(u, m, o) ==
    /\ calls < MaxCalls
    /\ \E r \in { analyze_intent(conversation_history, m, u, api_key, o) } :
           /\ decision' = r.decision
           /\ conversation_history' = r.history
    /\ user_id' = u
    /\ message' = m
    /\ outcome' = o
    /\ served' = NotServed
    /\ handler_raises' = FALSE
    /\ invoked' = << >>
    /\ reply' = NotReplied
    /\ pc' = "analyze_intent"
    /\ calls' = calls + 1
    /\ UNCHANGED << AGENT_MAPPING, api_key, scorerVars, storeVars, threadVars, shopVars >>

\* handle_message runs process_user_message(user_id, text)
ProcessUserMessage(u, m, o, raises) ==
    /\ calls < MaxCalls
    /\ handler_raises' = raises
    /\ message' = enhance_message_understanding(m)
    /\ \E r \in { Analyzed(conversation_history, message', u, api_key, o) } :
           /\ decision' = r.decision
           /\ conversation_history' = r.history
           /\ served' = IF api_key THEN Dispatch(AGENT_MAPPING, message', r)
                        ELSE Served(rule_based_routing(AGENT_MAPPING, message'), FALSE)
           /\ \E b \in { process_user_message(AGENT_MAPPING, message', api_key,
                                               r.decision, raises) } :
                  /\ invoked' = b.invoked
                  /\ reply' = [raised |-> b.raised, text |-> b.text]
    /\ user_id' = u
    /\ outcome' = o
    /\ pc' = "process_user_message"
    /\ calls' = calls + 1
    /\ UNCHANGED << AGENT_MAPPING, api_key, scorerVars, storeVars, threadVars, shopVars >>

Next ==
    \/ \E u \in Users \cup {None}, m \in RouterMessages, o \in OutcomesWith(api_key) :
           AnalyzeIntent(u, m, o)
    \/ \E u \in Users, m \in RouterMessages, o \in OutcomesWith(api_key),
          raises \in BOOLEAN :
           ProcessUserMessage(u, m, o, raises)

Spec == Init /\ [][Next]_vars

RouterTypeOK ==
    /\ calls \in 0..MaxCalls
    /\ \A u \in DOMAIN conversation_history : Len(conversation_history[u]) <= HistoryCap
    /\ decision.raised = FALSE

(***************************************************************************)
(* Properties of the router                                                *)
(***************************************************************************)
\* analyze_intent ran in the call that led to this state
AnalyzeIntentRan ==
    pc = "analyze_intent" \/ (pc = "process_user_message" /\ api_key)

\* C2: every analyze_intent call made with a user id appends exactly one
\* turn (message, resolved handler) to that user's history, on the
\* classifier path and on the rule fallback path.
C2_TurnRecordedOnEveryPath ==
    [][ (calls' = calls + 1 /\ AnalyzeIntentRan' /\ user_id' # None)
          => conversation_history' =
                 _update_conversation_history(conversation_history, user_id', message',
                                              decision'.agent) ]_vars

\* the keys of agents_capabilities
KnownHandlers == Agents \cup {"UniversalRecommendation"}

\* C3: the decision never names a handler outside the known enumeration, and
\* no such label is recorded: an unknown label in the classifier's answer
\* makes the rule fallback decide.
C3_OnlyKnownHandlers ==
    AnalyzeIntentRan =>
        /\ decision.agent \in KnownHandlers
        /\ \A u \in DOMAIN conversation_history :
               \A i \in DOMAIN conversation_history[u] :
                   conversation_history[u][i].agent \in KnownHandlers
        /\ (outcome.json.agent \notin KnownHandlers \cup {Missing})
               => decision.source = "RuleFallback"

\* the answer is an object that breaks the response schema
SchemaViolation(json) ==
    /\ json.type = "dict"
    /\ \/ json.agent = Missing
       \/ json.confidence.type # "number"
       \/ json.confidence.value < 0
       \/ json.confidence.value > 10

\* C4: an answer that breaks the schema (handler missing, confidence missing
\* or no number in [0,1]) is a classifier failure: the rule fallback decides
\* and no field of the decision is a default or out of range.
C4_SchemaViolationFallsBack ==
    (AnalyzeIntentRan /\ outcome.kind = "ok" /\ SchemaViolation(outcome.json))
        => /\ decision.source = "RuleFallback"
           /\ decision.confidence.type = "number"
           /\ decision.confidence.value \in 0..10

\* C5: when the classifier call times out, answers with a non-success
\* status, raises or answers with unparseable content, analyze_intent does
\* not raise and returns the decision of the rule fallback for the message.
C5_FailureGivesFallbackDecision ==
    (AnalyzeIntentRan /\ outcome.kind \in FailureKinds)
        => /\ ~decision.raised
           /\ decision.source = "RuleFallback"
           /\ decision.agent = _advanced_fallback_analysis(message, << >>).agent
           /\ decision.confidence
                  = Number(_advanced_fallback_analysis(message, << >>).confidence)

\* a timed-out call for a message the rules give to Finance
C5_Witness ==
    /\ pc = "analyze_intent"
    /\ api_key
    /\ outcome.kind = "timeout"
    /\ user_id = "U1"
    /\ decision.agent = "Finance"
    /\ decision.confidence = Number(7)

\* process_user_message ran in the call that led to this state
Dispatched == pc = "process_user_message"

\* the last process_message call made for the message
LastInvoked == invoked[Len(invoked)]

\* C11: a handler that raises during its invocation never makes
\* process_user_message raise: the caller gets a text reply, and it is the
\* "<handler name> temporarily unavailable" message of that handler.
C11_HandlerFailureIsolated ==
    Dispatched =>
        /\ ~reply.raised
        /\ reply.text.kind # None
        /\ (handler_raises /\ invoked # << >>) =>
               /\ reply.text.kind = "unavailable"
               /\ reply.text.agent = LastInvoked.agent

C11_Witness ==
    /\ Dispatched
    /\ handler_raises
    /\ invoked # << >>
    /\ reply.text.kind = "unavailable"

UnregisteredLabel ==
    /\ Dispatched
    /\ api_key
    /\ decision.agent \notin AGENT_MAPPING

\* C13: a decision whose label has no registered handler is answered with
\* the help message, and no handler is invoked for the message.
C13_UnregisteredLabelGetsHelp ==
    UnregisteredLabel =>
        /\ reply.text.kind = "help"
        /\ invoked = << >>

\* the decision of analyze_intent has a confidence below 0.5
LowConfidence ==
    /\ Dispatched
    /\ api_key
    /\ decision.confidence.type = "number"
    /\ decision.confidence.value < RemarkBelow

\* C14: a decision with confidence below 0.5 gives a reply with the
\* clarifying remark, and a registered label is served by its handler
\* whatever the confidence is.
C14_LowConfidenceRemark ==
    /\ LowConfidence => reply.text.remark
    /\ (Dispatched /\ api_key /\ decision.confidence.type = "number"
          /\ decision.agent \in AGENT_MAPPING)
         => invoked = << Invocation("classifier", decision.agent) >>

(***************************************************************************)
(* Turns recorded one after the other (SpecStore)                          *)
(***************************************************************************)
\* turns recorded per user in one behaviour
MaxRecords == 15

Digits == << "0", "1", "2", "3", "4", "5", "6", "7", "8", "9" >>

\* the text of the k-th message of a user: its number
NumberText(k) ==
    IF k < 10 THEN << Digits[k + 1] >> ELSE << Digits[(k \div 10) + 1], Digits[(k % 10) + 1] >>

RecordedFor(u) == IF u \in DOMAIN recorded THEN recorded[u] ELSE << >>

InitStore ==
    /\ AGENT_MAPPING = Agents
    /\ api_key = TRUE
    /\ conversation_history = EmptyHistory
    /\ user_id = None
    /\ message = << >>
    /\ pc = "start"
    /\ ScorerIdle
    /\ RouterIdle
    /\ TrackerIdle
    /\ FilterIdle
    /\ SearchIdle
    /\ StoreIdle
    /\ ThreadsIdle

\* _update_conversation_history(user_id, message, agent) for the next
\* message of user u
Record(u) ==
    /\ Len(RecordedFor(u)) < MaxRecords
    /\ LET k == Len(RecordedFor(u)) + 1
           msg == NumberText(k)
           agent == AgentOrder[(k % Len(AgentOrder)) + 1]
       IN  /\ conversation_history' =
                  _update_conversation_history(conversation_history, u, msg, agent)
           /\ recorded' = [v \in DOMAIN recorded \cup {u} |->
                             IF v = u THEN Append(RecordedFor(u), Turn(msg, agent))
                             ELSE recorded[v]]
           /\ message' = msg
    /\ user_id' = u
    /\ pc' = "record"
    /\ UNCHANGED << AGENT_MAPPING, api_key, scorerVars, routerVars, threadVars, shopVars >>

NextStore == \E u \in Users : Record(u)

SpecStore == InitStore /\ [][NextStore]_vars

\* C9: after k records for a user the history of that user is the last
\* min(k, 10) recorded turns, in recording order, most recent last.
C9_LastTenInOrder ==
    \A u \in DOMAIN recorded :
        LET k == Len(recorded[u])
            h == conversation_history[u]
            n == IF k < 10 THEN k ELSE 10
        IN  /\ Len(h) = n
            /\ \A i \in 1..n : h[i] = recorded[u][k - n + i]

\* 15 records: the history holds records 6..15
C9_Witness ==
    /\ "U1" \in DOMAIN recorded
    /\ Len(recorded["U1"]) = 15
    /\ Len(conversation_history["U1"]) = 10
    /\ conversation_history["U1"][1] = recorded["U1"][6]
    /\ conversation_history["U1"][10] = recorded["U1"][15]
    /\ conversation_history["U1"][1].message = << "6" >>

(***************************************************************************)
(* The rule scorers applied to one message (SpecScorer)                    *)
(***************************************************************************)
ScorerHistories ==
    { EmptyHistory,
      [u \in {"U1"} |-> << Turn(<<"ji_8A18","zhang_5E33">>, "Finance"), Turn(<<"jia_50F9","ge_683C">>, "PriceTracker") >>] }

Mappings == { Agents, Agents \ {"Gmail"} }

InitScorer ==
    /\ AGENT_MAPPING \in Mappings
    /\ api_key = FALSE
    /\ conversation_history \in ScorerHistories
    /\ user_id = "U1"
    /\ message \in Messages
    /\ pc = "raw"
    /\ fallback = NoResult
    /\ routed = None
    /\ RouterIdle
    /\ TrackerIdle
    /\ FilterIdle
    /\ SearchIdle
    /\ StoreIdle
    /\ ThreadsIdle

\* process_user_message, line 146
EnhanceMessage ==
    /\ pc = "raw"
    /\ fallback = NoResult
    /\ message' = enhance_message_understanding(message)
    /\ pc' = "enhanced"
    /\ UNCHANGED << AGENT_MAPPING, api_key, conversation_history, user_id, fallback, routed, routerVars, storeVars, threadVars, shopVars >>

\* _advanced_fallback_analysis on the message and the user's context
ScoreFallback ==
    /\ fallback = NoResult
    /\ fallback' = _advanced_fallback_analysis(message,
                       _get_user_context(conversation_history, user_id))
    /\ UNCHANGED << AGENT_MAPPING, api_key, conversation_history, user_id, message, pc, routed, routerVars, storeVars, threadVars, shopVars >>

\* rule_based_routing on the enhanced message
RouteByRules ==
    /\ pc = "enhanced"
    /\ routed = None
    /\ routed' = rule_based_routing(AGENT_MAPPING, message)
    /\ UNCHANGED << AGENT_MAPPING, api_key, conversation_history, user_id, message, pc, fallback, routerVars, storeVars, threadVars, shopVars >>

NextScorer == EnhanceMessage \/ ScoreFallback \/ RouteByRules

SpecScorer == InitScorer /\ [][NextScorer]_vars

ScorerTypeOK ==
    /\ fallback.agent \in Agents \cup {None}
    /\ routed \in Agents \cup {Help, None}

(***************************************************************************)
(* Properties of the rule scorers                                          *)
(***************************************************************************)
BothRouted == fallback.agent # None /\ routed # None

\* C1: with the classifier unset or failed, rule_based_routing and
\* _advanced_fallback_analysis select the same handler for every message.
C1_SameRuleHandler ==
    BothRouted => routed = fallback.agent

AllScoresZero == \A a \in Agents : fallback.scores[a] = 0

\* C6: when every handler's score is 0 the rule fallback returns
\* SmartRecommendation with confidence 0.3.
C6_DefaultOnNoMatch ==
    (fallback.agent # None /\ AllScoresZero)
        => (fallback.agent = "SmartRecommendation" /\ fallback.confidence = 3)

C6_Witness ==
    /\ fallback.agent # None
    /\ AllScoresZero
    /\ message = <<"i","p","h","o","n","e">>

RegistrationOrder ==
    << "SmartRecommendation", "PriceTracker", "ProductReview", "Finance", "Gmail" >>

TopScorers ==
    { a \in Agents : \A b \in Agents : fallback.scores[b] <= fallback.scores[a] }

\* C7: the scores are a function of the message alone, and among the
\* handlers that tie at the highest nonzero score the first in the order
\* SmartRecommendation, PriceTracker, ProductReview, Finance, Gmail wins.
C7_DeterministicTieBreak ==
    fallback.agent # None =>
        /\ fallback.scores = FallbackScores(message)
        /\ ~AllScoresZero =>
              \E i \in DOMAIN RegistrationOrder :
                  /\ fallback.agent = RegistrationOrder[i]
                  /\ RegistrationOrder[i] \in TopScorers
                  /\ \A j \in 1..(i - 1) : RegistrationOrder[j] \notin TopScorers

\* a tie between two handlers, scored for a user who has a history
C7_Witness ==
    /\ fallback.agent # None
    /\ ~AllScoresZero
    /\ Cardinality(TopScorers) >= 2
    /\ _get_user_context(conversation_history, user_id) # << >>

OtherHandlerWords ==
    RecommendationWords \o RecommendationProducts \o PriceWords \o PriceNotifyWords
    \o ReviewWords \o ReviewDetailWords \o GmailWords \o GmailConnectWords
    \o RouteGmailWords \o RoutePriceWords \o RouteReviewWords \o RouteRecommendWords

\* a spending keyword, a period keyword and no keyword of another handler
SpendingQuery(msg) ==
    /\ AnyWordIn(FinanceWords, Lower(msg))
    /\ AnyWordIn(FinancePeriodWords, Lower(msg))
    /\ ~AnyWordIn(OtherHandlerWords, Lower(msg))
    /\ ~AnyWordIn(QuestionMarks, msg)

\* C8: with no classifier configured a spending query (spending keyword and
\* period keyword, no keyword of another handler) is routed to Finance by
\* the analyzer's fallback and by rule_based_routing.
C8_SpendingQueryToFinance ==
    (BothRouted /\ ~api_key /\ "Finance" \in AGENT_MAPPING /\ SpendingQuery(message))
        => (fallback.agent = "Finance" /\ routed = "Finance")

(***************************************************************************)
(* Webhook threads that record a turn (SpecThreads)                        *)
(*                                                                         *)
(* callback starts one thread per delivery; each thread runs               *)
(* handle_message -> process_user_message -> analyze_intent ->             *)
(* _update_conversation_history.  The analyzer and its dict are shared and *)
(* no lock is taken, so the threads interleave between the reads and       *)
(* writes of the dict and of the list objects it refers to.                *)
(***************************************************************************)
Threads == {"T1", "T2"}

\* the history a user has when the threads start: none, or a list of n turns
NoList == 0
ThreadInitLengths == {HistoryCap - 1, HistoryCap}

OldTurns(n) == [i \in 1..n |-> Turn(NumberText(i), "Finance")]

\* the text of the message a thread handles
ThreadText(t) == IF t = "T1" THEN << "a" >> ELSE << "b" >>

\* the list the dict holds for user u
ListOf(u) == IF u \in DOMAIN entry THEN heap[entry[u]] ELSE << >>

InitThreads ==
    /\ AGENT_MAPPING = Agents
    /\ api_key = TRUE
    /\ conversation_history = EmptyHistory
    /\ user_id = None
    /\ message = << >>
    /\ pc = "start"
    /\ ScorerIdle
    /\ RouterIdle
    /\ TrackerIdle
    /\ FilterIdle
    /\ SearchIdle
    /\ StoreIdle
    /\ \/ /\ heap = << >>
          /\ entry = << >>
       \/ \E n \in ThreadInitLengths :
              /\ heap = << OldTurns(n) >>
              /\ entry = [u \in {"U1"} |-> 1]
    /\ tuser \in { f \in [Threads -> Users] : f["T1"] = "U1" }
    /\ tpc = [t \in Threads |-> "start"]
    /\ tref = [t \in Threads |-> NoList]
    /\ tturn = [t \in Threads |-> Turn(ThreadText(t), None)]
    /\ tcontext = [t \in Threads |-> 0]
    /\ decided = << >>

ThreadFrame == UNCHANGED << AGENT_MAPPING, api_key, conversation_history, user_id,
                            message, pc, scorerVars, routerVars, storeVars, tuser,
                            shopVars >>

\* analyze_intent, line 141: the thread of a webhook delivery gets the
\* context of its user, then sends the classifier request
GetUserContext(t) ==
    /\ tpc[t] = "start"
    /\ tcontext' = [tcontext EXCEPT ![t] = Len(_get_user_context(
                        [u \in DOMAIN entry |-> heap[entry[u]]], tuser[t]))]
    /\ tpc' = [tpc EXCEPT ![t] = "L152"]
    /\ UNCHANGED << heap, entry, tref, tturn, decided >>
    /\ ThreadFrame

\* a classifier call that waits until the calls of the other threads that
\* were sent are answered
Classified_OneAtATime(t, a) ==
    /\ tpc[t] = "L152"
    /\ \A s \in Threads \ {t} : tpc[s] # "L152" \/ t = "T1"
    /\ tturn' = [tturn EXCEPT ![t] = Turn(ThreadText(t), a)]
    /\ decided' = Append(decided, t)
    /\ tpc' = [tpc EXCEPT ![t] = "L379"]
    /\ UNCHANGED << heap, entry, tref, tcontext >>
    /\ ThreadFrame

\* analyze_intent, lines 152-161: the classifier answered with agent a
Classified(t, a) ==
    /\ tpc[t] = "L152"
    /\ tturn' = [tturn EXCEPT ![t] = Turn(ThreadText(t), a)]
    /\ decided' = Append(decided, t)
    /\ tpc' = [tpc EXCEPT ![t] = "L379"]
    /\ UNCHANGED << heap, entry, tref, tcontext >>
    /\ ThreadFrame

\* line 379: if user_id not in self.conversation_history
TestPresent(t) ==
    /\ tpc[t] = "L379"
    /\ tpc' = [tpc EXCEPT ![t] = IF tuser[t] \in DOMAIN entry THEN "L382" ELSE "L380"]
    /\ UNCHANGED << heap, entry, tref, tturn >>
    /\ UNCHANGED << tcontext, decided >>
    /\ ThreadFrame

\* line 380: self.conversation_history[user_id] = []
CreateList(t) ==
    /\ tpc[t] = "L380"
    /\ heap' = Append(heap, << >>)
    /\ entry' = [u \in DOMAIN entry \cup {tuser[t]} |->
                   IF u = tuser[t] THEN Len(heap) + 1 ELSE entry[u]]
    /\ tpc' = [tpc EXCEPT ![t] = "L382"]
    /\ UNCHANGED << tref, tturn >>
    /\ UNCHANGED << tcontext, decided >>
    /\ ThreadFrame

\* line 382: self.conversation_history[user_id] is loaded
LoadForAppend(t) ==
    /\ tpc[t] = "L382"
    /\ tref' = [tref EXCEPT ![t] = entry[tuser[t]]]
    /\ tpc' = [tpc EXCEPT ![t] = "L382_append"]
    /\ UNCHANGED << heap, entry, tturn >>
    /\ UNCHANGED << tcontext, decided >>
    /\ ThreadFrame

\* line 382: .append({...}) on the loaded list
AppendTurn(t) ==
    /\ tpc[t] = "L382_append"
    /\ heap' = [heap EXCEPT ![tref[t]] = Append(@, tturn[t])]
    /\ tpc' = [tpc EXCEPT ![t] = "L389"]
    /\ UNCHANGED << entry, tref, tturn >>
    /\ UNCHANGED << tcontext, decided >>
    /\ ThreadFrame

\* line 389: if len(self.conversation_history[user_id]) > 10
TestLength(t) ==
    /\ tpc[t] = "L389"
    /\ tpc' = [tpc EXCEPT ![t] =
                 IF Len(heap[entry[tuser[t]]]) > HistoryCap THEN "L390" ELSE "L163"]
    /\ UNCHANGED << heap, entry, tref, tturn >>
    /\ UNCHANGED << tcontext, decided >>
    /\ ThreadFrame

\* line 390, right side: self.conversation_history[user_id][-10:] is a new list
SliceList(t) ==
    /\ tpc[t] = "L390"
    /\ heap' = Append(heap, LastN(heap[entry[tuser[t]]], HistoryCap))
    /\ tref' = [tref EXCEPT ![t] = Len(heap) + 1]
    /\ tpc' = [tpc EXCEPT ![t] = "L390_store"]
    /\ UNCHANGED << entry, tturn >>
    /\ UNCHANGED << tcontext, decided >>
    /\ ThreadFrame

\* line 390, left side: self.conversation_history[user_id] = <the new list>
StoreList(t) ==
    /\ tpc[t] = "L390_store"
    /\ entry' = [entry EXCEPT ![tuser[t]] = tref[t]]
    /\ tpc' = [tpc EXCEPT ![t] = "L163"]
    /\ UNCHANGED << heap, tref, tturn >>
    /\ UNCHANGED << tcontext, decided >>
    /\ ThreadFrame

\* analyze_intent returns; process_user_message dispatches the message and
\* the thread replies, app.py lines 154-162 and the handler of the event
Answer(t) ==
    /\ tpc[t] = "L163"
    /\ tpc' = [tpc EXCEPT ![t] = "done"]
    /\ UNCHANGED << heap, entry, tref, tturn, tcontext, decided >>
    /\ ThreadFrame

\* the steps of one thread
ThreadStep(t) ==
    \/ GetUserContext(t)
    \/ \E a \in {"Finance", "PriceTracker"} : Classified(t, a)
    \/ TestPresent(t)
    \/ CreateList(t)
    \/ LoadForAppend(t)
    \/ AppendTurn(t)
    \/ TestLength(t)
    \/ SliceList(t)
    \/ StoreList(t)
    \/ Answer(t)

NextThreads == \E t \in Threads : ThreadStep(t)

SpecThreads == InitThreads /\ [][NextThreads]_vars

\* the thread of the second delivery is scheduled and its own classifier
\* call ends, at the latest by the timeout of requests.post; nothing is
\* assumed of the first thread, whose classifier call may stay pending
SpecThreadsFair == SpecThreads /\ WF_vars(ThreadStep("T2"))

AllDone == \A t \in Threads : tpc[t] = "done"

Holds(u, turn) == \E i \in DOMAIN ListOf(u) : ListOf(u)[i] = turn

\* C10: two messages of one user handled by concurrent threads are both in
\* the user's history once both threads are done, in every interleaving,
\* for a user without history and for a history at the cap.
C10_NoLostUpdate ==
    (AllDone /\ tuser["T1"] = tuser["T2"])
        => \A t \in Threads : Holds(tuser[t], tturn[t])

(***************************************************************************)
(* agents/price_tracker_agent_improved.py: product name and target price   *)
(* of a message.  The regular expressions are computed on the characters:  *)
(* a match is the leftmost one, \s* and \d+ take the longest run.          *)
(***************************************************************************)
DigitChars == { Digits[k] : k \in 1..10 }

\* the characters of the messages that \s matches
Whitespace == { " " }

\* the index after the longest run of characters of `class` that starts at i
RECURSIVE SkipRun(_, _, _)
SkipRun(s, i, class) ==
    IF i <= Len(s) /\ s[i] \in class THEN SkipRun(s, i + 1, class) ELSE i

DigitValue(c) == (CHOOSE k \in 1..10 : Digits[k] = c) - 1

\* float(s[i:j]) for a run of digits
RECURSIVE NumberFrom(_, _, _, _)
NumberFrom(s, i, j, acc) ==
    IF i >= j THEN acc ELSE NumberFrom(s, i + 1, j, 10 * acc + DigitValue(s[i]))

\* a match whose group(1) is s[from..to-1]
Match(from, to) == [ok |-> TRUE, from |-> from, to |-> to]
NoMatch == [ok |-> FALSE, from |-> 0, to |-> 0]

\* (\d+), (\d{4,}) at i
DigitsAt(s, i, least) ==
    IF SkipRun(s, i, DigitChars) - i >= least THEN Match(i, SkipRun(s, i, DigitChars))
    ELSE NoMatch

\* [::：]
Colons == { ":", "colon_FF1A" }

\* the index after an optional character of `class` at i
SkipOptional(s, i, class) == IF i <= Len(s) /\ s[i] \in class THEN i + 1 ELSE i

\* word\s*[::：]?\s*(\d+) at i
LabelledNumberAt(s, word, i) ==
    IF ~MatchAt(s, word, i) THEN NoMatch
    ELSE DigitsAt(s, SkipRun(s, SkipOptional(s, SkipRun(s, i + Len(word), Whitespace),
                                             Colons), Whitespace), 1)

\* (\d{4,})\s*word at i
NumberBeforeAt(s, word, i) ==
    IF DigitsAt(s, i, 4).ok
         /\ MatchAt(s, word, SkipRun(s, SkipRun(s, i, DigitChars), Whitespace))
    THEN DigitsAt(s, i, 4) ELSE NoMatch

\* word[optional]?\s*(\d+) at i
PrefixedNumberAt(s, word, optional, i) ==
    IF ~MatchAt(s, word, i) THEN NoMatch
    ELSE DigitsAt(s, SkipRun(s, SkipOptional(s, i + Len(word), optional), Whitespace), 1)

Pattern(kind, word, optional) == [kind |-> kind, word |-> word, optional |-> optional]

\* _extract_target_price.patterns
patterns ==
    << Pattern("labelled", <<"mu_76EE","biao_6A19","jia_50F9","ge_683C">>, {}),
       Pattern("labelled", <<"mu_76EE","biao_6A19">>, {}),
       Pattern("labelled", <<"jia_50F9","ge_683C">>, {}),
       Pattern("before", <<"yuan_5143">>, {}),
       Pattern("prefixed", <<"N","T">>, {"$"}),
       Pattern("prefixed", <<"$">>, {}) >>

MatchPatternAt(s, p, i) ==
    CASE p.kind = "labelled" -> LabelledNumberAt(s, p.word, i)
      [] p.kind = "before" -> NumberBeforeAt(s, p.word, i)
      [] OTHER -> PrefixedNumberAt(s, p.word, p.optional, i)

\* the positions at which the pattern matches
MatchPositions(s, p) == { i \in 1..Len(s) : MatchPatternAt(s, p, i).ok }

\* re.search(pattern, s): the leftmost match
Search(p, s) ==
    IF MatchPositions(s, p) = {} THEN NoMatch
    ELSE MatchPatternAt(s, p, CHOOSE i \in MatchPositions(s, p) :
                                  \A k \in MatchPositions(s, p) : i <= k)

\* prices below this are not returned
PriceFloor == 100

\* lines 237-240 for the match m of a pattern
PriceOfMatch(s, m) == IF m.ok THEN Present(NumberFrom(s, m.from, m.to, 0)) ELSE Absent

Accepted(price) == price # Absent /\ price[1] >= PriceFloor

\* an extractor that returns whatever number the first matching pattern has
RECURSIVE TargetPriceFrom_NoFloor(_, _)
TargetPriceFrom_NoFloor(msg, k) ==
    IF k > Len(patterns) THEN Absent
    ELSE IF PriceOfMatch(msg, Search(patterns[k], msg)) # Absent
    THEN PriceOfMatch(msg, Search(patterns[k], msg))
    ELSE TargetPriceFrom_NoFloor(msg, k + 1)

\* the loop over the patterns, from pattern k on
RECURSIVE TargetPriceFrom(_, _)
TargetPriceFrom(msg, k) ==
    IF k > Len(patterns) THEN Absent
    ELSE IF Accepted(PriceOfMatch(msg, Search(patterns[k], msg)))
    THEN PriceOfMatch(msg, Search(patterns[k], msg))
    ELSE TargetPriceFrom(msg, k + 1)

_extract_target_price(msg) == TargetPriceFrom(msg, 1)

\* the alternatives of price_pattern, NT\$? as NT$ before NT
PriceLabels == << <<"mu_76EE","biao_6A19","jia_50F9","ge_683C">>, <<"jia_50F9","ge_683C">>, <<"yuan_5143">>, <<"$">>, <<"N","T","$">>, <<"N","T">> >>

\* (alternative k or a later one)\s*\d+ at i: the index after the match, or 0
RECURSIVE PriceSpanEnd(_, _, _)
PriceSpanEnd(s, i, k) ==
    IF k > Len(PriceLabels) THEN 0
    ELSE IF MatchAt(s, PriceLabels[k], i)
              /\ DigitsAt(s, SkipRun(s, i + Len(PriceLabels[k]), Whitespace), 1).ok
    THEN DigitsAt(s, SkipRun(s, i + Len(PriceLabels[k]), Whitespace), 1).to
    ELSE PriceSpanEnd(s, i, k + 1)

\* re.sub(price_pattern, '', s) from i on
RECURSIVE RemovePriceSpans(_, _)
RemovePriceSpans(s, i) ==
    IF i > Len(s) THEN << >>
    ELSE IF PriceSpanEnd(s, i, 1) > 0 THEN RemovePriceSpans(s, PriceSpanEnd(s, i, 1))
    ELSE << s[i] >> \o RemovePriceSpans(s, i + 1)

remove_keywords ==
    << <<"zhui_8FFD","zong_8E64">>, <<"jian_76E3","kong_63A7">>, <<"tong_901A","zhi_77E5">>, <<"jiang_964D","jia_50F9">>, <<"qing_8ACB","bang_5E6B","wo_6211">>, <<"bang_5E6B","wo_6211">>, <<"cha_67E5","xun_8A62">>, <<"cha_67E5","jia_50F9">>, <<"yi_79FB","chu_9664">>, <<"shan_522A","chu_9664">>, <<"qu_53D6","xiao_6D88">> >>

RECURSIVE RemoveKeywords(_, _)
RemoveKeywords(clean, k) ==
    IF k > Len(remove_keywords) THEN clean
    ELSE RemoveKeywords(Replace(clean, remove_keywords[k], << " " >>), k + 1)

\* [，,。.！!？?]
Punctuation == { "comma_FF0C", ",", "period_3002", ".", "bang_FF01", "!", "qmark_FF1F", "?" }

RemovePunctuation(s) == [i \in 1..Len(s) |-> IF s[i] \in Punctuation THEN " " ELSE s[i]]

\* re.sub(r'\s+', ' ', s) from i on
RECURSIVE CollapseWhitespace(_, _)
CollapseWhitespace(s, i) ==
    IF i > Len(s) THEN << >>
    ELSE IF s[i] \in Whitespace
    THEN << " " >> \o CollapseWhitespace(s, SkipRun(s, i, Whitespace))
    ELSE << s[i] >> \o CollapseWhitespace(s, i + 1)

\* str.strip()
Strip(s) ==
    IF \A i \in 1..Len(s) : s[i] \in Whitespace THEN << >>
    ELSE SubSeq(s, CHOOSE a \in 1..Len(s) : s[a] \notin Whitespace
                                             /\ \A k \in 1..(a - 1) : s[k] \in Whitespace,
                   CHOOSE b \in 1..Len(s) : s[b] \notin Whitespace
                                             /\ \A k \in (b + 1)..Len(s) : s[k] \in Whitespace)

\* lines 203-213
CleanName(msg) ==
    Strip(CollapseWhitespace(RemovePunctuation(RemoveKeywords(RemovePriceSpans(msg, 1), 1)), 1))

\* a name of at most this many characters is not returned
NameFloor == 2

\* lines 215-218
NameOrNone(clean) == IF Len(clean) > NameFloor THEN Present(clean) ELSE Absent

_extract_product_name(msg) == NameOrNone(CleanName(msg))

(***************************************************************************)
(* agents/price_tracker_agent_improved.py: _search_pchome and              *)
(* _filter_products                                                        *)
(***************************************************************************)
exclude_keywords ==
    << <<"bao_4FDD","hu_8B77","tao_5957">>, <<"bao_4FDD","hu_8B77","ke_6BBC">>, <<"shou_624B","ji_6A5F","ke_6BBC">>, <<"pi_76AE","tao_5957">>, <<"chong_5145","dian_96FB","qi_5668">>, <<"chong_5145","dian_96FB","xian_7DDA">>, <<"chuan_50B3","shu_8F38","xian_7DDA">>, <<"dian_96FB","chi_6C60">>, <<"xing_884C","dong_52D5","dian_96FB","yuan_6E90">>,
       <<"er_8033","ji_6A5F","tao_5957">>, <<"zhi_652F","jia_67B6">>, <<"tie_8CBC","mo_819C">>, <<"bao_4FDD","hu_8B77","tie_8CBC">>, <<"pei_914D","jian_4EF6">>, <<"zhou_5468","bian_908A">>, <<"zhuan_5C08","yong_7528">>, <<"shi_9069","yong_7528","yu_65BC">> >>

\* a product of a search response
Product(id, name, price) == [Id |-> id, name |-> name, price |-> price]

\* products[:n]
FirstN(list, n) == SubSeq(list, 1, Min(n, Len(list)))

\* the products whose lowered name has no exclude keyword, in order
RECURSIVE KeepProducts(_, _)
KeepProducts(list, i) ==
    IF i > Len(list) THEN << >>
    ELSE IF AnyWordIn(exclude_keywords, Lower(list[i].name)) THEN KeepProducts(list, i + 1)
    ELSE << list[i] >> \o KeepProducts(list, i + 1)

\* the slice of line 342
TopN == 10

\* a line 342 that returns the kept products even when there are none
FilteredOrAll_NoFallback(kept, list) == FirstN(kept, TopN)

\* line 342 for the kept products
FilteredOrAll(kept, list) == IF kept # << >> THEN FirstN(kept, TopN) ELSE FirstN(list, TopN)

_filter_products(list, query) == FilteredOrAll(KeepProducts(list, 1), list)

\* a product of a search response that has no price field
Unpriced(id, name) == [Id |-> id, name |-> name]

\* p.get('price') is truthy
HasPrice(p) == "price" \in DOMAIN p /\ p.price # 0

\* the truthy prices of the products, in order
RECURSIVE Prices(_, _)
Prices(list, i) ==
    IF i > Len(list) THEN << >>
    ELSE IF HasPrice(list[i]) THEN << list[i].price >> \o Prices(list, i + 1)
    ELSE Prices(list, i + 1)

\* float('inf') of line 312, above every price of a response
Infinity == 1000000

\* the key of line 312: x.get('price', float('inf'))
PriceKey(p) == IF "price" \in DOMAIN p THEN p.price ELSE Infinity

\* min(filtered, key=...): the first product of the least key, from i on
RECURSIVE CheapestFrom(_, _, _)
CheapestFrom(list, i, best) ==
    IF i > Len(list) THEN best
    ELSE IF PriceKey(list[i]) < PriceKey(best) THEN CheapestFrom(list, i + 1, list[i])
    ELSE CheapestFrom(list, i + 1, best)

\* line 312
Cheapest(list) == CheapestFrom(list, 2, list[1])

\* the dict of lines 314-320
Found(min_price, cheapest) ==
    [platform |-> "PChome 24h", min_price |-> min_price, url |-> << "prod/", cheapest.Id >>,
     product_name |-> cheapest.name, product_id |-> cheapest.Id]

\* min(prices)
RECURSIVE MinOf(_, _)
MinOf(prices, i) ==
    IF i = Len(prices) THEN prices[i] ELSE Min(prices[i], MinOf(prices, i + 1))

\* lines 306-321 for the filtered products
LowestOf(list) ==
    IF list = << >> \/ Prices(list, 1) = << >> THEN Absent
    ELSE Present(Found(MinOf(Prices(list, 1), 1), Cheapest(list)))

\* what requests.get and response.json() can do for _search_pchome
SearchOutcome(kind, list) == [kind |-> kind, products |-> list]

\* _search_pchome(product_name): None, or the lowest price found
_search_pchome(o, query) ==
    IF o.kind # "ok" THEN Absent        \* exception, or status not 200
    ELSE LowestOf(_filter_products(o.products, query))

(***************************************************************************)
(* agents/price_tracker_agent_improved.py: _handle_track_request           *)
(***************************************************************************)
\* a document of product_name_tracking
Tracking(user, name, price, lowest) ==
    [user_id |-> user, product_name |-> name, target_price |-> price,
     current_lowest_price |-> lowest, is_active |-> TRUE]

\* update_one({user_id, product_name}, {$set: doc}, upsert=True)
Upsert(docs, doc) ==
    { t \in docs : ~(t.user_id = doc.user_id /\ t.product_name = doc.product_name) }
        \cup { doc }

\* how a track request ended
Tracked(name, price, text, searched, docs) ==
    [product_name |-> name, target_price |-> price, reply |-> text,
     searches |-> searched, tracking |-> docs]

\* lines 249-289 for the result found of _search_pchome
AfterSearch(user, name, price, found, connected, searched, docs) ==
    IF found = Absent THEN Tracked(name, price, "not_found", searched, docs)
    ELSE IF connected
    THEN Tracked(name, price, "tracked", searched,
                 Upsert(docs, Tracking(user, name[1], price[1], found[1].min_price)))
    ELSE Tracked(name, price, "no_database", searched, docs)

\* _track_product_by_name(user_id, product_name, target_price)
_track_product_by_name(user, name, price, o, connected, searched, docs) ==
    AfterSearch(user, name, price, _search_pchome(o, name[1]), connected,
                Append(searched, name[1]), docs)

\* a handler that tracks without a target price
TrackExtracted_NoPriceCheck(user, name, price, o, connected, searched, docs) ==
    IF name = Absent THEN Tracked(name, price, "ask_product_name", searched, docs)
    ELSE [ _track_product_by_name(user, name, IF price = Absent THEN Present(0) ELSE price,
                                  o, connected, searched, docs)
             EXCEPT !.target_price = price ]

\* lines 99-105 for the extracted name and price
TrackExtracted(user, name, price, o, connected, searched, docs) ==
    IF name = Absent THEN Tracked(name, price, "ask_product_name", searched, docs)
    ELSE IF price = Absent THEN Tracked(name, price, "ask_target_price", searched, docs)
    ELSE _track_product_by_name(user, name, price, o, connected, searched, docs)

_handle_track_request(user, msg, o, connected, searched, docs) ==
    TrackExtracted(user, _extract_product_name(msg), _extract_target_price(msg), o,
                   connected, searched, docs)

\* process_user_request, lines 69-79: the message goes to _handle_track_request
IsTrackRequest(msg) ==
    /\ ~AnyWordIn(<< <<"yi_79FB","chu_9664">>, <<"shan_522A","chu_9664">>, <<"qu_53D6","xiao_6D88">> >>, Lower(Strip(msg)))
    /\ ~AnyWordIn(<< <<"qing_6E05","dan_55AE">>, <<"lie_5217","biao_8868">> >>, Lower(Strip(msg)))
    /\ ~(Contains(Lower(Strip(msg)), <<"cha_67E5","kan_770B">>) /\ Contains(Lower(Strip(msg)), <<"zhui_8FFD","zong_8E64">>))
    /\ AnyWordIn(<< <<"zhui_8FFD","zong_8E64">>, <<"jian_76E3","kong_63A7">> >>, Lower(Strip(msg)))

(***************************************************************************)
(* Track requests and extractions of one message (SpecTracker)             *)
(***************************************************************************)
\* the characters product names are made of
ProductChars == { "P", "N", "T", "5" }

RECURSIVE ProductsOf(_)
\* product names of at most n characters
ProductsOf(n) ==
    IF n = 0 THEN { << >> }
    ELSE ProductsOf(n - 1) \cup { p \o << c >> : p \in ProductsOf(n - 1), c \in ProductChars }

\* how a message starts: a track keyword and whitespace, or nothing
TrackHeads == { <<"zhui_8FFD","zong_8E64">> \o << " " >>, <<"jian_76E3","kong_63A7">> \o << " ", " " >>, << >> }

\* how a message ends: nothing, a target-price keyword and a number, or
\* another way of writing a price
PriceTails ==
    { << >>,
      << " " >> \o <<"mu_76EE","biao_6A19","jia_50F9","ge_683C">> \o << " ", "3", "5", "0", "0", "0" >>,
      << " " >> \o <<"mu_76EE","biao_6A19","jia_50F9","ge_683C">> \o << " ", "1", "0", "0" >>,
      << " " >> \o <<"mu_76EE","biao_6A19","jia_50F9","ge_683C">> \o << " ", "9", "9" >>,
      << " " >> \o <<"mu_76EE","biao_6A19">> \o << ":", "5", "0", "0" >>,
      << " " >> \o <<"jia_50F9","ge_683C">> \o << " ", "5", "0", " " >> \o <<"jia_50F9","ge_683C">> \o << " ", "5", "0", "0" >>,
      << " ", "5", "0", "0", "0" >> \o <<"yuan_5143">>,
      << " ", "0", "0", "9", "9" >> \o <<"yuan_5143">>,
      << " ", "N", "T", "$", " ", "5", "0" >>,
      << " ", "$", "2", "5", "0", "?" >>,
      << " " >> \o <<"jia_50F9","ge_683C">> \o << " ", "5", "0", " ", "N", "T", "$", "5", "0", "0" >> }

TrackerMessages ==
    { h \o p \o t : h \in TrackHeads, p \in ProductsOf(MaxProductLen), t \in PriceTails }

\* what the search of a track request meets: no answer, an answer without
\* products, an accessory and the product, only an accessory
SearchOutcomes ==
    { SearchOutcome("timeout", << >>),
      SearchOutcome("http_error", << >>),
      SearchOutcome("ok", << >>),
      SearchOutcome("ok", << Product("A1", << "P", "5", " " >> \o <<"dian_96FB","chi_6C60">>, 300),
                             Product("A2", << "P", "5" >>, 30000) >>),
      SearchOutcome("ok", << Product("A1", << "P", "5", " " >> \o <<"dian_96FB","chi_6C60">>, 300) >>) }

\* a document the collection holds before the request
ExistingTracking == Tracking("U1", << "P", "5", "5" >>, 20000, 25000)

InitTracker ==
    /\ AGENT_MAPPING = Agents
    /\ api_key = FALSE
    /\ conversation_history = EmptyHistory
    /\ user_id = "U1"
    /\ message \in TrackerMessages
    /\ pc = "start"
    /\ ScorerIdle
    /\ RouterIdle
    /\ StoreIdle
    /\ ThreadsIdle
    /\ FilterIdle
    /\ SearchIdle
    /\ db_connected \in BOOLEAN
    /\ tracking = { ExistingTracking }
    /\ searches = << >>
    /\ product_name = Absent
    /\ target_price = Absent
    /\ track_reply = None

TrackerFrame ==
    UNCHANGED << AGENT_MAPPING, api_key, conversation_history, user_id, message,
                 scorerVars, routerVars, storeVars, threadVars, filterVars, searchVars,
                 db_connected >>

\* the two extractors applied to the message
Extract ==
    /\ pc = "start"
    /\ product_name' = _extract_product_name(message)
    /\ target_price' = _extract_target_price(message)
    /\ pc' = "extracted"
    /\ UNCHANGED << tracking, searches, track_reply >>
    /\ TrackerFrame

\* process_user_request gives the message to _handle_track_request
HandleTrackRequest(o) ==
    /\ pc = "start"
    /\ IsTrackRequest(message)
    /\ \E r \in { _handle_track_request(user_id, message, o, db_connected, searches,
                                        tracking) } :
           /\ product_name' = r.product_name
           /\ target_price' = r.target_price
           /\ track_reply' = r.reply
           /\ searches' = r.searches
           /\ tracking' = r.tracking
    /\ pc' = "tracked"
    /\ TrackerFrame

NextTracker ==
    \/ Extract
    \/ \E o \in SearchOutcomes : HandleTrackRequest(o)

SpecTracker == InitTracker /\ [][NextTracker]_vars

(***************************************************************************)
(* Properties of the extractor and of the track request                    *)
(***************************************************************************)
\* both extractors ran on the message
Extracted == pc \in { "extracted", "tracked" }

\* the messages "<track keyword> {product} <target-price keyword> {N}" with
\* N >= 100, with their product and their N
RoundTrips ==
    { [text |-> h \o p \o << " " >> \o <<"mu_76EE","biao_6A19","jia_50F9","ge_683C">> \o << " " >> \o n,
       product |-> p, price |-> NumberFrom(n, 1, Len(n) + 1, 0)] :
        h \in TrackHeads \ { << >> },
        p \in ProductsOf(MaxProductLen) \ { << >> },
        n \in { << "1", "0", "0" >>, << "3", "5", "0", "0", "0" >> } }

\* C15: for a message "<track keyword> {product} <target-price keyword> {N}"
\* with N >= 100 and an alphanumeric product, the extracted product name is
\* the product and the extracted target price is N.
C15_ExtractorRoundTrip ==
    Extracted =>
        \A r \in RoundTrips :
            message = r.text =>
                /\ product_name = Present(r.product)
                /\ target_price = Present(r.price)

\* the values of the maximal runs of digits of s
NumericSpans(s) ==
    { NumberFrom(s, i, SkipRun(s, i, DigitChars), 0) :
        i \in { k \in 1..Len(s) : s[k] \in DigitChars
                                   /\ (k = 1 \/ s[k - 1] \notin DigitChars) } }

\* C16: the extracted target price is never below 100, and it is absent for
\* a message none of whose numeric spans is at least 100.
C16_NoPriceBelowFloor ==
    Extracted =>
        /\ target_price # Absent => target_price[1] >= 100
        /\ (\A n \in NumericSpans(message) : n < 100) => target_price = Absent

\* a message whose only price is below 100, found by a pattern and dropped
C16_Witness ==
    /\ pc = "extracted"
    /\ \E k \in DOMAIN patterns : Search(patterns[k], message).ok
    /\ \A n \in NumericSpans(message) : n < 100
    /\ target_price = Absent

\* C17: a track request without extracted product name, or without
\* extracted target price, is answered by asking for the missing field; it
\* makes no search and leaves the tracking documents as they were.
C17_AbsenceAsksAndChangesNothing ==
    [][ (pc' = "tracked" /\ (product_name' = Absent \/ target_price' = Absent))
          => /\ track_reply' = IF product_name' = Absent THEN "ask_product_name"
                               ELSE "ask_target_price"
             /\ searches' = searches
             /\ tracking' = tracking ]_vars

C17_Witness ==
    /\ pc = "tracked"
    /\ product_name # Absent
    /\ target_price = Absent
    /\ track_reply = "ask_target_price"
    /\ searches = << >>

(***************************************************************************)
(* _filter_products applied to the products of one response (SpecFilter)   *)
(***************************************************************************)
\* product names: the product, the product's battery, a phone case, an
\* accessory with a Latin name
ProductNames ==
    { << "P", "5" >>,
      << "P", "5", " " >> \o <<"dian_96FB","chi_6C60">>,
      <<"shou_624B","ji_6A5F","ke_6BBC">>,
      << "C", "a", "s", "e", " " >> \o <<"pei_914D","jian_4EF6">> }

\* how the prices of a response run: rising or falling along the response,
\* rising with a first product of price 0 or without a price field
Pricings == { "rising", "falling", "free_first", "unpriced_first" }

PriceAt(i, pricing) ==
    CASE pricing = "falling" -> 100 * (MaxProducts + 1 - i)
      [] pricing = "free_first" /\ i = 1 -> 0
      [] OTHER -> 100 * i

\* a response of n products whose names repeat the three names of `shape`
Response(n, shape, pricing) ==
    [i \in 1..n |->
        IF pricing = "unpriced_first" /\ i = 1
        THEN Unpriced(NumberText(i), shape[((i - 1) % 3) + 1])
        ELSE Product(NumberText(i), shape[((i - 1) % 3) + 1], PriceAt(i, pricing))]

Responses ==
    { Response(n, shape, pricing) :
        n \in 0..MaxProducts, shape \in [1..3 -> ProductNames], pricing \in Pricings }

InitFilter ==
    /\ AGENT_MAPPING = Agents
    /\ api_key = FALSE
    /\ conversation_history = EmptyHistory
    /\ user_id = None
    /\ message = << >>
    /\ pc = "start"
    /\ ScorerIdle
    /\ RouterIdle
    /\ StoreIdle
    /\ ThreadsIdle
    /\ TrackerIdle
    /\ SearchIdle
    /\ products \in Responses
    /\ filtered = << >>
    /\ pchome_result = << >>

\* _search_pchome filters the products of the response, line 308
FilterProducts ==
    /\ pc = "start"
    /\ filtered' = _filter_products(products, message)
    /\ pc' = "filtered"
    /\ UNCHANGED << AGENT_MAPPING, api_key, conversation_history, user_id, message,
                    scorerVars, routerVars, storeVars, threadVars, trackerVars,
                    searchVars, products, pchome_result >>

\* _search_pchome for a response of status 200 with these products
SearchPchome ==
    /\ pc = "start"
    /\ filtered' = _filter_products(products, message)
    /\ pchome_result' = _search_pchome(SearchOutcome("ok", products), message)
    /\ pc' = "searched"
    /\ UNCHANGED << AGENT_MAPPING, api_key, conversation_history, user_id, message,
                    scorerVars, routerVars, storeVars, threadVars, trackerVars,
                    searchVars, products >>

NextFilter ==
    \/ FilterProducts
    \/ SearchPchome

SpecFilter == InitFilter /\ [][NextFilter]_vars

\* the name has an accessory-exclusion keyword
IsAccessory(p) == AnyWordIn(exclude_keywords, Lower(p.name))

\* every product of the response is an accessory
AllAccessories ==
    /\ products # << >>
    /\ \A i \in DOMAIN products : IsAccessory(products[i])

\* C20: when every candidate of a non-empty list has an exclusion keyword in
\* its name, the filter returns the first ten candidates of the list in
\* their order, and never an empty list.
C20_FilterNeverEmpties ==
    (pc = "filtered" /\ AllAccessories) =>
        /\ filtered # << >>
        /\ Len(filtered) = Min(10, Len(products))
        /\ \A i \in DOMAIN filtered : filtered[i] = products[i]

\* more than ten accessories and nothing else
C20_Witness ==
    /\ pc = "filtered"
    /\ AllAccessories
    /\ Len(products) > 10
    /\ Len(filtered) = 10

(***************************************************************************)
(* agents/multi_platform_search.py                                         *)
(***************************************************************************)
\* the keys of results, in insertion order
Platforms == << "pchome", "momo", "shopee" >>

PlatformSet == { Platforms[i] : i \in DOMAIN Platforms }

\* how a call ends: with a list, or with an exception
Returned(list) == [raised |-> FALSE, list |-> list]
RaisedCall == [raised |-> TRUE, list |-> << >>]

\* a candidate of a platform
Candidate(platform, p) == [platform |-> platform, name |-> p.name, price |-> p.price, Id |-> p.Id]

\* lines 21-34: the first `n` products of the answer as candidates
PchomeResults(o, n) ==
    [i \in 1..Min(n, Len(o.products)) |-> Candidate("PChome 24h", o.products[i])]

\* search_pchome(keyword, limit): the try block, then the except and the
\* `return []` of line 37
search_pchome(o, n) ==
    IF o.kind = "ok" THEN Returned(PchomeResults(o, n)) ELSE Returned(<< >>)

\* search_momo and search_shopee send no request
search_momo(o, n) == Returned(<< >>)
search_shopee(o, n) == Returned(<< >>)

\* future.result() of the future submitted for the platform
FutureResult(platform, sites, n) ==
    CASE platform = "pchome" -> search_pchome(sites[platform], n)
      [] platform = "momo" -> search_momo(sites[platform], n)
      [] OTHER -> search_shopee(sites[platform], n)

\* lines 78-83 for the futures in the order they complete, from the k-th on
RECURSIVE CollectFrom(_, _, _, _, _)
CollectFrom(res, order, k, sites, n) ==
    IF k > Len(order) THEN res
    ELSE CollectFrom(IF FutureResult(order[k], sites, n).raised THEN res
                     ELSE [res EXCEPT ![order[k]] = FutureResult(order[k], sites, n).list],
                     order, k + 1, sites, n)

\* search_all_platforms(keyword, limit)
search_all_platforms(sites, n, order) ==
    CollectFrom([p \in PlatformSet |-> << >>], order, 1, sites, n)

\* lines 99-101
RECURSIVE AllProducts(_, _)
AllProducts(res, k) ==
    IF k > Len(Platforms) THEN << >> ELSE res[Platforms[k]] \o AllProducts(res, k + 1)

\* list.sort(key=price) keeps the order of equal prices: insert x after the
\* elements that are not greater
RECURSIVE InsertByPrice(_, _, _)
InsertByPrice(sorted, x, i) ==
    IF i > Len(sorted) THEN Append(sorted, x)
    ELSE IF sorted[i].price > x.price
    THEN SubSeq(sorted, 1, i - 1) \o << x >> \o SubSeq(sorted, i, Len(sorted))
    ELSE InsertByPrice(sorted, x, i + 1)

RECURSIVE SortFrom(_, _, _)
SortFrom(list, k, sorted) ==
    IF k > Len(list) THEN sorted ELSE SortFrom(list, k + 1, InsertByPrice(sorted, list[k], 1))

\* a sort that leaves the list as it is
SortByPrice_Unsorted(list) == list

\* line 107
SortByPrice(list) == SortFrom(list, 1, << >>)

\* the products listed in the response
Listed == 5

\* the response text: what it says, the products it lists, whether it ends
\* with the number of results
Formatted(kind, listed, counted) == [kind |-> kind, listed |-> listed, counted |-> counted]

\* lines 103-120 for the sorted products
FormatSorted(all) ==
    IF all = << >> THEN Formatted("not_found", << >>, FALSE)
    ELSE Formatted("results", FirstN(all, Listed), Len(all) > Listed)

format_multi_platform_response(res, keyword) == FormatSorted(SortByPrice(AllProducts(res, 1)))

(***************************************************************************)
(* One search of all platforms and its response (SpecSearch)               *)
(***************************************************************************)
\* the answer of a site: n products, priced out of order and with ties; in
\* the answers of k = 2 every second product is an accessory
SiteProducts(n, k) ==
    [i \in 1..n |->
        Product(NumberText(i),
                IF k = 2 /\ i % 2 = 0 THEN << "P", "5", " " >> \o <<"dian_96FB","chi_6C60">> ELSE << "P", "5" >>,
                100 * (((i * k) % 4) + 1))]

SiteFailures ==
    { SearchOutcome("timeout", << >>), SearchOutcome("http_error", << >>),
      SearchOutcome("bad_content", << >>) }

\* what a request to the PChome site can meet
PchomeOutcomes ==
    SiteFailures \cup { SearchOutcome("ok", SiteProducts(n, k)) : n \in 0..MaxResults, k \in 1..3 }

\* what a request to one of the other sites would meet
OtherOutcomes ==
    { SearchOutcome("timeout", << >>), SearchOutcome("ok", << >>),
      SearchOutcome("ok", SiteProducts(2, 1)) }

\* the orders in which the three futures can complete
CompletionOrders ==
    { << a, b, c >> : a \in PlatformSet, b \in PlatformSet, c \in PlatformSet }
        \ { o \in PlatformSet \X PlatformSet \X PlatformSet :
                o[1] = o[2] \/ o[1] = o[3] \/ o[2] = o[3] }

\* the default limit and a larger one
Limits == { 5, 10 }

InitSearch ==
    /\ AGENT_MAPPING = Agents
    /\ api_key = FALSE
    /\ conversation_history = EmptyHistory
    /\ user_id = None
    /\ message = << "P", "5" >>
    /\ pc = "start"
    /\ ScorerIdle
    /\ RouterIdle
    /\ StoreIdle
    /\ ThreadsIdle
    /\ TrackerIdle
    /\ FilterIdle
    /\ source_outcome \in { [pchome |-> a, momo |-> b, shopee |-> c] :
                              a \in PchomeOutcomes, b \in OtherOutcomes, c \in OtherOutcomes }
    /\ limit \in Limits
    /\ results = << >>
    /\ future = << >>
    /\ response = [kind |-> None, listed |-> << >>, counted |-> FALSE]

SearchFrame ==
    UNCHANGED << AGENT_MAPPING, api_key, conversation_history, user_id, message,
                 scorerVars, routerVars, storeVars, threadVars, trackerVars, filterVars,
                 source_outcome, limit, future >>

\* a caller runs search_all_platforms(keyword, limit)
SearchAllPlatforms(order) ==
    /\ pc = "start"
    /\ results' = search_all_platforms(source_outcome, limit, order)
    /\ pc' = "searched"
    /\ UNCHANGED response
    /\ SearchFrame

\* the caller runs format_multi_platform_response(results, keyword)
FormatResponse ==
    /\ pc = "searched"
    /\ response' = format_multi_platform_response(results, message)
    /\ pc' = "formatted"
    /\ UNCHANGED results
    /\ SearchFrame

NextSearch ==
    \/ \E order \in CompletionOrders : SearchAllPlatforms(order)
    \/ FormatResponse

SpecSearch == InitSearch /\ [][NextSearch]_vars

(***************************************************************************)
(* search_all_platforms step by step: the pool threads that run the three  *)
(* source calls and the main thread that collects the futures (SpecPool)   *)
(***************************************************************************)
PoolFrame ==
    UNCHANGED << AGENT_MAPPING, api_key, conversation_history, user_id, message,
                 scorerVars, routerVars, storeVars, threadVars, trackerVars, filterVars,
                 source_outcome, limit, response >>

\* lines 65-76: the result dict, the pool and the three submitted calls
Submit ==
    /\ pc = "start"
    /\ results' = [p \in PlatformSet |-> << >>]
    /\ future' = [p \in PlatformSet |-> "running"]
    /\ pc' = "L78"
    /\ PoolFrame

\* a source call without timeout: it ends only if the site answers
SourceEnds_NoTimeout(p) ==
    /\ pc = "L78"
    /\ future[p] = "running"
    /\ source_outcome[p].kind # "timeout"
    /\ future' = [future EXCEPT ![p] = "done"]
    /\ UNCHANGED << results, pc >>
    /\ PoolFrame

\* the call of a pool thread ends: the site answered, the request raised,
\* or it hit the timeout of line 20
SourceEnds(p) ==
    /\ pc = "L78"
    /\ future[p] = "running"
    /\ future' = [future EXCEPT ![p] = "done"]
    /\ UNCHANGED << results, pc >>
    /\ PoolFrame

\* lines 78-83: as_completed gives a future that is done; its result is
\* stored, or its exception is logged
Collect(p) ==
    /\ pc = "L78"
    /\ future[p] = "done"
    /\ \E r \in { FutureResult(p, source_outcome, limit) } :
           results' = IF r.raised THEN results ELSE [results EXCEPT ![p] = r.list]
    /\ future' = [future EXCEPT ![p] = "collected"]
    /\ UNCHANGED pc
    /\ PoolFrame

\* line 85: the loop and the with block are left, the dict is returned
ReturnResults ==
    /\ pc = "L78"
    /\ \A p \in PlatformSet : future[p] = "collected"
    /\ pc' = "searched"
    /\ UNCHANGED << results, future >>
    /\ PoolFrame

NextPool ==
    \/ Submit
    \/ \E p \in PlatformSet : SourceEnds(p)
    \/ \E p \in PlatformSet : Collect(p)
    \/ ReturnResults

SpecPool == InitSearch /\ [][NextPool]_vars

\* the pool threads and the main thread are scheduled
SpecPoolFair == SpecPool /\ WF_vars(NextPool)

(***************************************************************************)
(* Properties of the search                                                *)
(***************************************************************************)
Searched == pc \in { "searched", "formatted" }

\* the platforms whose site does not answer the request
FailedSources == { p \in PlatformSet : source_outcome[p].kind # "ok" }

\* the candidates of a list
CandidatesOf(list) == { list[i] : i \in DOMAIN list }

\* the prices of the list never go down
Ascending(list) ==
    \A i \in 1..(Len(list) - 1) : list[i].price <= list[i + 1].price

\* C18: when exactly one of the three sources fails, the search returns a
\* result for every platform: nothing for the failed one, every candidate
\* the other two returned, and the response lists candidates by ascending
\* price.
C18_OneFailureTolerated ==
    (Searched /\ Cardinality(FailedSources) = 1) =>
        /\ DOMAIN results = PlatformSet
        /\ \A p \in FailedSources : results[p] = << >>
        /\ \A p \in PlatformSet \ FailedSources :
               CandidatesOf(FutureResult(p, source_outcome, limit).list)
                   \subseteq CandidatesOf(results[p])
        /\ pc = "formatted" =>
               /\ Ascending(response.listed)
               /\ CandidatesOf(response.listed) \subseteq CandidatesOf(AllProducts(results, 1))
               /\ (response.kind = "not_found") <=> (AllProducts(results, 1) = << >>)

\* one source failed and the answer of another one was out of price order
C18_Witness ==
    /\ pc = "formatted"
    /\ Cardinality(FailedSources) = 1
    /\ ~Ascending(results["pchome"])
    /\ Len(response.listed) >= 2

\* the sites all answer, with no product
AllAnswerEmpty == [p \in PlatformSet |-> SearchOutcome("ok", << >>)]

\* C19: when all three sources fail, the search returns a result without
\* candidates that marks the three sources as failed: it differs from the
\* result of three sources that answered with no candidate.
C19_AllFailedIsMarked ==
    (Searched /\ FailedSources = PlatformSet) =>
        /\ \A p \in PlatformSet : results[p] = << >>
        /\ results # search_all_platforms(AllAnswerEmpty, limit, Platforms)

(***************************************************************************)
(* The label recorded for a dispatched message (Spec)                      *)
(***************************************************************************)
\* analyze_intent recorded a turn for the message of this call
TurnRecorded ==
    /\ Dispatched
    /\ user_id \in DOMAIN conversation_history
    /\ decision.source = "ExternalClassifier"

\* the turn analyze_intent appended last for the user of this call
LastTurn == conversation_history[user_id][Len(conversation_history[user_id])]

\* C30: the handler label of a recorded turn is the handler that made the
\* reply for that message; a label the classifier returned but that was not
\* dispatched is never recorded.
C30_RecordedLabelIsServedHandler ==
    TurnRecorded =>
        /\ invoked # << >>
        /\ LastTurn.agent = LastInvoked.agent

(***************************************************************************)
(* Which pattern decides the target price (SpecTracker)                    *)
(***************************************************************************)
\* the patterns of the list that match the message
Matching(msg) == { k \in DOMAIN patterns : Search(patterns[k], msg).ok }

\* the first pattern, in list order, that matches the message
FirstMatching(msg) == CHOOSE k \in Matching(msg) : \A j \in Matching(msg) : k <= j

\* the number the first matching pattern captures
FirstCaptured(msg) ==
    NumberFrom(msg, Search(patterns[FirstMatching(msg)], msg).from,
               Search(patterns[FirstMatching(msg)], msg).to, 0)

\* C23: the first pattern, in list order, that matches the message decides
\* the target price: the target price is absent if the number it captures is
\* below 100, and a number of a later pattern never takes its place.
C23_FirstMatchingPatternDecides ==
    (Extracted /\ Matching(message) # {}) =>
        target_price = IF FirstCaptured(message) >= 100
                       THEN Present(FirstCaptured(message)) ELSE Absent

\* the pattern whose number is the target price of the message
Producing(msg) ==
    CHOOSE k \in DOMAIN patterns :
        /\ Accepted(PriceOfMatch(msg, Search(patterns[k], msg)))
        /\ \A j \in 1..(k - 1) : ~Accepted(PriceOfMatch(msg, Search(patterns[j], msg)))

\* the digits the producing pattern captures
SpanDigits(msg) ==
    SubSeq(msg, Search(patterns[Producing(msg)], msg).from,
           Search(patterns[Producing(msg)], msg).to - 1)

\* the price marker of the producing pattern
SpanMarker(msg) == patterns[Producing(msg)].word

\* how often w occurs in s
Count(s, w) == Cardinality({ i \in 1..Len(s) : MatchAt(s, w, i) })

\* C24: when a message yields both a target price and a product name, the
\* product name does not hold the matched price span: the digits of the span
\* and its price marker occur in the name less often than in the message.
C24_NameWithoutPriceSpan ==
    (Extracted /\ target_price # Absent /\ product_name # Absent) =>
        /\ Count(product_name[1], SpanDigits(message)) < Count(message, SpanDigits(message))
        /\ Count(product_name[1], SpanMarker(message)) < Count(message, SpanMarker(message))

(***************************************************************************)
(* What the tracker search reports (SpecFilter)                            *)
(***************************************************************************)
\* _search_pchome returned a result for the response
Reported == pc = "searched" /\ pchome_result # Absent

\* the candidates that survive the exclusion filter: the products without
\* an exclusion keyword, or all of them when each one has a keyword
Survivors ==
    IF KeepProducts(products, 1) # << >> THEN KeepProducts(products, 1) ELSE products

\* C27: the price reported as lowest is the least price over all the
\* candidates that survive the exclusion filter, also over those beyond the
\* first ten of the response.
C27_LowestOverAllSurvivors ==
    Reported =>
        \A i \in DOMAIN Survivors :
            HasPrice(Survivors[i]) => pchome_result[1].min_price <= Survivors[i].price

\* C29: the reported url, product name and product id are those of a
\* candidate whose price is the reported min_price.
C29_ReportedCandidateHasMinPrice ==
    Reported =>
        \E i \in DOMAIN products :
            /\ pchome_result[1].product_id = products[i].Id
            /\ pchome_result[1].product_name = products[i].name
            /\ pchome_result[1].url = << "prod/", products[i].Id >>
            /\ "price" \in DOMAIN products[i]
            /\ products[i].price = pchome_result[1].min_price

(***************************************************************************)
(* Accessories in the merged result (SpecSearch)                           *)
(***************************************************************************)
\* some candidate of the list is an accessory, and some is not
MixedAccessories(list) ==
    /\ \E i \in DOMAIN list : IsAccessory(list[i])
    /\ \E i \in DOMAIN list : ~IsAccessory(list[i])

\* C21: the merged result of the sources, and the response made of it, hold
\* no candidate whose name has an accessory-exclusion keyword, unless every
\* collected candidate has one.
C21_NoAccessoryInMergedResult ==
    /\ Searched => ~MixedAccessories(AllProducts(results, 1))
    /\ pc = "formatted" => ~MixedAccessories(response.listed)

(***************************************************************************)
(* Order, cap and independence of concurrent requests (SpecThreads)        *)
(***************************************************************************)
\* the place of the turn of thread t in the list of its user, 0 if none
PlaceOf(t) ==
    IF Holds(tuser[t], tturn[t])
    THEN CHOOSE i \in DOMAIN ListOf(tuser[t]) : ListOf(tuser[t])[i] = tturn[t]
    ELSE 0

\* the routing decision of thread s was produced before that of thread t
DecidedBefore(s, t) ==
    \E i, j \in DOMAIN decided : i < j /\ decided[i] = s /\ decided[j] = t

\* C25: for one user the turns are in the history in the order in which
\* their routing decisions were produced: a turn decided later is never
\* recorded before, or without, a turn decided earlier.
C25_TurnsInDecisionOrder ==
    \A s, t \in Threads :
        (tuser[s] = tuser[t] /\ DecidedBefore(s, t) /\ PlaceOf(t) # 0)
            => (PlaceOf(s) # 0 /\ PlaceOf(s) < PlaceOf(t))

\* C26: no list of the history has more than 10 entries in any state, and
\* no thread gets a context of more than 10 entries.
C26_CapInEveryState ==
    /\ \A u \in DOMAIN entry : Len(ListOf(u)) <= 10
    /\ \A t \in Threads : tcontext[t] <= 10

\* C28: the request of another user is classified, dispatched and answered
\* in every interleaving, also when the classifier call of the first
\* request stays pending.
C28_OtherUserCompletes ==
    (tuser["T1"] # tuser["T2"]) => <>(tpc["T2"] = "done")

\* the second user is answered while the classifier call of the first one
\* is pending
C28_Witness ==
    /\ tuser["T1"] # tuser["T2"]
    /\ tpc["T1"] = "L152"
    /\ tpc["T2"] = "done"
    /\ Holds(tuser["T2"], tturn["T2"])

(***************************************************************************)
(* The search of all platforms ends (SpecPoolFair)                         *)
(***************************************************************************)
\* search_all_platforms returned, with what every source call gave
ReturnedAll ==
    /\ pc = "searched"
    /\ DOMAIN results = PlatformSet
    /\ \A p \in PlatformSet : results[p] = FutureResult(p, source_outcome, limit).list

\* C22: the search of all platforms ends: once every source call returned,
\* raised or hit its timeout the call returns its result, with what the
\* other sources gave, whatever source failed or timed out.
C22_AggregateSearchEnds == <>ReturnedAll

\* the search returned although the requests to all sites timed out
C22_Witness ==
    /\ ReturnedAll
    /\ \A p \in PlatformSet : source_outcome[p].kind = "timeout"
    /\ \A p \in PlatformSet : future[p] = "collected"

=============================================================================
